---- MODULE Spec2Model ----
(***************************************************************************)
(* Visibility and authorization logic of the blogicum blog application     *)
(* (blogicum/blog/views.py, blogicum/blog/admin.py).                       *)
(*                                                                         *)
(* The relational store (posts, comments, category flags) and the clock    *)
(* are the state.  Every view is modelled by the response it computes from *)
(* the store and the request, following the method resolution order of its *)
(* class; the views that write are also actions on the store.              *)
(*                                                                         *)
(* Not modelled: ordering and pagination of the lists (object_list is the  *)
(* set of listed posts), Location, the profile form, template rendering.   *)
(***************************************************************************)
EXTENDS Integers, FiniteSets, TLC

\* Bounds of the model.
MaxPosts == 2
MaxComments == 1
MaxTime == 1

None == "None"
Users == {"alice", "bob"}
AnonymousUser == "AnonymousUser"
Requesters == Users \cup {AnonymousUser}
Categories == {"news"}
PostIds == 1..MaxPosts
CommentIds == 1..MaxComments
Times == 0..MaxTime
Texts == {"first", "second"}

VARIABLES
    posts,               \* Post rows: pk -> [author, is_published, pub_date, category]
    comments,            \* Comment rows: pk -> [author, post, text]
    category_published,  \* Category.is_published, by slug
    now,                 \* timezone.now()
    last_post_id,        \* the Post table's autoincrement counter
    last_comment_id      \* the Comment table's autoincrement counter

vars == <<posts, comments, category_published, now, last_post_id, last_comment_id>>

\* The rows a request reads.
DB == [posts |-> posts, comments |-> comments]

\* request.user.pk, request.user.username, request.user.is_authenticated
pk(user) == IF user = AnonymousUser THEN None ELSE user
username(user) == IF user = AnonymousUser THEN "" ELSE user
is_authenticated(user) == user \in Users

TypeOK ==
    /\ DOMAIN posts \subseteq PostIds
    /\ \A p \in DOMAIN posts :
          posts[p] \in [author : Users, is_published : BOOLEAN,
                        pub_date : Times, category : Categories \cup {None}]
    /\ DOMAIN comments \subseteq CommentIds
    /\ \A c \in DOMAIN comments :
          /\ comments[c] \in [author : Users, post : PostIds, text : Texts]
          /\ comments[c].post \in DOMAIN posts
    /\ category_published \in [Categories -> BOOLEAN]
    /\ now \in Times
    /\ last_post_id \in 0..MaxPosts
    /\ last_comment_id \in 0..MaxComments

(***************************************************************************)
(* Responses                                                               *)
(***************************************************************************)
EmptyResponse ==
    [status |-> "", url_name |-> "", url_post_id |-> 0, url_username |-> "",
     post |-> 0, comment |-> 0, comments |-> {}, object_list |-> {}]

\* super().dispatch(...): the next class of the MRO goes on with the request.
Pass == [EmptyResponse EXCEPT !.status = "pass"]

Http404 == [EmptyResponse EXCEPT !.status = "not_found"]

\* An exception no handler catches: Django answers 500.
ServerError == [EmptyResponse EXCEPT !.status = "server_error"]

redirect_post_detail(post_id) ==
    [EmptyResponse EXCEPT !.status = "redirect", !.url_name = "blog:post_detail",
                          !.url_post_id = post_id]

redirect_profile(name) ==
    [EmptyResponse EXCEPT !.status = "redirect", !.url_name = "blog:profile",
                          !.url_username = name]

redirect_login == [EmptyResponse EXCEPT !.status = "redirect", !.url_name = "login"]

\* A rendered template and what it shows.
render_post(post_id, shown) ==
    [EmptyResponse EXCEPT !.status = "ok", !.post = post_id, !.comments = shown]
render_comment(comment_id) ==
    [EmptyResponse EXCEPT !.status = "ok", !.comment = comment_id]
render_list(listed) == [EmptyResponse EXCEPT !.status = "ok", !.object_list = listed]
render_form == [EmptyResponse EXCEPT !.status = "ok"]

(***************************************************************************)
(* Shared dispatch steps                                                   *)
(***************************************************************************)
\* SingleObjectMixin.get_object() of the Post views (pk_url_kwarg = 'post_id').
Post_get_object(db, post_id) ==
    IF post_id \in DOMAIN db.posts
    THEN [found |-> TRUE, pk |-> post_id, author |-> db.posts[post_id].author]
    ELSE [found |-> FALSE, pk |-> 0, author |-> None]

\* get_object() of the Comment views (pk_url_kwarg = 'comment_id'): the comment is
\* looked up by its own pk alone, whatever post_id the URL carries.
Comment_get_object(db, comment_id) ==
    IF comment_id \in DOMAIN db.comments
    THEN [found |-> TRUE, pk |-> comment_id, author |-> db.comments[comment_id].author]
    ELSE [found |-> FALSE, pk |-> 0, author |-> None]

\* IsAuthorMixin.dispatch without the comparison of the author with the requester.
IsAuthorMixin_dispatch_without_comparison(obj, user) ==
    IF ~obj.found THEN Http404 ELSE Pass

\* IsAuthorMixin.dispatch: obj is self.get_object(); the redirect is built from
\* self.get_object().pk, whatever the model of the object.
IsAuthorMixin_dispatch(obj, user) ==
    IF ~obj.found THEN Http404
    ELSE IF obj.author # pk(user) THEN redirect_post_detail(obj.pk)
    ELSE Pass

\* LoginRequiredMixin.dispatch
LoginRequiredMixin_dispatch(user) ==
    IF ~is_authenticated(user) THEN redirect_login ELSE Pass

\* get_object_or_404(Post, pk=kwargs['post_id'])
get_post_or_404(db, post_id) ==
    IF post_id \in DOMAIN db.posts THEN Pass ELSE Http404

(***************************************************************************)
(* Views that read                                                         *)
(***************************************************************************)
\* PostDetailView.dispatch without `or not self.post_obj.category.is_published`.
PostDetailView_condition_without_category(post) ==
    IF ~post.is_published THEN "true"
    ELSE IF post.pub_date > now THEN "true"
    ELSE "false"

\* The condition of PostDetailView.dispatch, evaluated left to right as Python's
\* `or` does; post.category.is_published raises AttributeError on a post without
\* category.
PostDetailView_condition(post) ==
    IF ~post.is_published THEN "true"
    ELSE IF post.pub_date > now THEN "true"
    ELSE IF post.category = None THEN "AttributeError"
    ELSE IF ~category_published[post.category] THEN "true"
    ELSE "false"

\* PostDetailView.get_context_data: context['comments']
PostDetailView_comments(db, post_id) ==
    {c \in DOMAIN db.comments : db.comments[c].post = post_id}

\* PostDetailView: GET /posts/<post_id>/
PostDetailView(db, user, post_id) ==
    IF post_id \notin DOMAIN db.posts THEN Http404
    ELSE LET post_obj == db.posts[post_id]
             cond == PostDetailView_condition(post_obj)
         IN  IF cond = "AttributeError" THEN ServerError
             ELSE IF cond = "true" /\ pk(user) # post_obj.author THEN Http404
             ELSE render_post(post_id, PostDetailView_comments(db, post_id))

\* PostListMixin.get_queryset: every post (annotation and ordering left out).
PostListMixin_get_queryset(db) == DOMAIN db.posts

\* PostListView.get_queryset
PostListView_get_queryset(db) ==
    {p \in PostListMixin_get_queryset(db) :
        /\ db.posts[p].pub_date < now
        /\ db.posts[p].is_published
        /\ db.posts[p].category # None
        /\ category_published[db.posts[p].category]}

\* PostListView: GET /
PostListView(db) == render_list(PostListView_get_queryset(db))

\* CategoryListlView: GET /category/<category_slug>/
CategoryListlView(db, category_slug) ==
    IF ~(category_slug \in Categories /\ category_published[category_slug])
    THEN Http404
    ELSE render_list({p \in PostListView_get_queryset(db) :
                         db.posts[p].category = category_slug})

\* ProfileListView.get_queryset: the filter of the branch for another viewer is
\* applied to a copy that is dropped, so both branches return the same queryset.
ProfileListView_get_queryset(db, user, name) ==
    LET queryset == {p \in PostListMixin_get_queryset(db) : db.posts[p].author = name}
        filtered == {p \in queryset :
                        /\ db.posts[p].pub_date < now
                        /\ db.posts[p].is_published
                        /\ db.posts[p].category # None
                        /\ category_published[db.posts[p].category]}
    IN  IF username(user) # name
        THEN queryset      \* `filtered` is computed and not assigned
        ELSE queryset

\* ProfileListView: GET /profile/<username>/
ProfileListView(db, user, name) ==
    IF name \notin Users THEN Http404
    ELSE render_list(ProfileListView_get_queryset(db, user, name))

(***************************************************************************)
(* Requests that carry a form                                              *)
(***************************************************************************)
\* A GET, a POST the form rejects, or a POST of valid PostForm data.  The form
\* has no author field: PostCreateView.form_valid sets the author.
PostPayloads ==
    {[method |-> "GET", valid |-> FALSE, is_published |-> FALSE, pub_date |-> 0,
      category |-> None],
     [method |-> "POST", valid |-> FALSE, is_published |-> FALSE, pub_date |-> 0,
      category |-> None]}
    \cup [method : {"POST"}, valid : {TRUE}, is_published : BOOLEAN,
          pub_date : Times, category : Categories \cup {None}]

\* A GET, a POST the form rejects, or a POST of valid CommentForm data.  author and
\* post are what the client adds to the submitted data about them: one forgery
\* names alice and the first post, the other bob and the last.
CommentPayloads ==
    {[method |-> "GET", valid |-> FALSE, text |-> "first", author |-> "alice",
      post |-> 1],
     [method |-> "POST", valid |-> FALSE, text |-> "first", author |-> "alice",
      post |-> 1]}
    \cup {[method |-> "POST", valid |-> TRUE, text |-> t, author |-> a,
           post |-> IF a = "alice" THEN 1 ELSE MaxPosts] : t \in Texts, a \in Users}

\* The same with one forgery only: what the edit form reads is the text.
CommentTextPayloads == {c \in CommentPayloads : c.author = "alice"}

Methods == {"GET", "POST"}

(***************************************************************************)
(* Views that write: the response                                          *)
(***************************************************************************)
\* PostCreateView: /posts/create/
PostCreateView_response(db, user, payload) ==
    LET login == LoginRequiredMixin_dispatch(user)
    IN  IF login # Pass THEN login
        ELSE IF payload.method = "POST" /\ payload.valid
             THEN redirect_profile(username(user))
             ELSE render_form

\* The dispatch chain of PostUpdateView and PostDeleteView, whose bases are
\* (IsAuthorMixin, PostEditMixin, ...): IsAuthorMixin.dispatch runs first and
\* LoginRequiredMixin.dispatch (PostEditMixin's base) after it.
PostEdit_dispatch(db, user, post_id) ==
    LET author == IsAuthorMixin_dispatch(Post_get_object(db, post_id), user)
    IN  IF author # Pass THEN author
        ELSE LoginRequiredMixin_dispatch(user)

\* PostUpdateView: /posts/<post_id>/edit/
PostUpdateView_response(db, user, post_id, payload) ==
    LET d == PostEdit_dispatch(db, user, post_id)
    IN  IF d # Pass THEN d
        ELSE IF payload.method = "POST" /\ payload.valid
             THEN redirect_post_detail(post_id)
             ELSE render_post(post_id, {})

\* PostDeleteView: /posts/<post_id>/delete/
PostDeleteView_response(db, user, post_id, method) ==
    LET d == PostEdit_dispatch(db, user, post_id)
    IN  IF d # Pass THEN d
        ELSE IF method = "POST"
             THEN redirect_profile(username(user))
             ELSE render_post(post_id, {})

\* CommentCreateView: /posts/<post_id>/comment/.  Its own dispatch looks the post
\* up before LoginRequiredMixin.dispatch runs.
CommentCreateView_response(db, user, post_id, payload) ==
    LET found == get_post_or_404(db, post_id)
        login == LoginRequiredMixin_dispatch(user)
    IN  IF found # Pass THEN found
        ELSE IF login # Pass THEN login
        ELSE IF payload.method = "POST" /\ payload.valid
             THEN redirect_post_detail(post_id)
             ELSE render_form

\* The dispatch chain of CommentUpdateView and CommentDeleteView, whose bases are
\* (LoginRequiredMixin, IsAuthorMixin, CommentMixin, ...).
CommentEdit_dispatch(db, user, post_id, comment_id) ==
    LET login == LoginRequiredMixin_dispatch(user)
        author == IsAuthorMixin_dispatch(Comment_get_object(db, comment_id), user)
    IN  IF login # Pass THEN login
        ELSE IF author # Pass THEN author
        ELSE get_post_or_404(db, post_id)

\* CommentMixin.get_success_url: the detail page of self.get_object().post
CommentMixin_get_success_url(db, comment_id) ==
    redirect_post_detail(db.comments[comment_id].post)

\* CommentUpdateView: /posts/<post_id>/comment/<comment_id>/edit
CommentUpdateView_response(db, user, post_id, comment_id, payload) ==
    LET d == CommentEdit_dispatch(db, user, post_id, comment_id)
    IN  IF d # Pass THEN d
        ELSE IF payload.method = "POST" /\ payload.valid
             THEN CommentMixin_get_success_url(db, comment_id)
             ELSE render_comment(comment_id)

\* CommentDeleteView: /posts/<post_id>/comment/<comment_id>/delete
CommentDeleteView_response(db, user, post_id, comment_id, method) ==
    LET d == CommentEdit_dispatch(db, user, post_id, comment_id)
    IN  IF d # Pass THEN d
        ELSE IF method = "POST"
             THEN CommentMixin_get_success_url(db, comment_id)
             ELSE render_comment(comment_id)

(***************************************************************************)
(* Views that write: the effect on the store                               *)
(***************************************************************************)
Init ==
    /\ posts = [p \in {} |-> 0]
    /\ comments = [c \in {} |-> 0]
    /\ category_published \in [Categories -> BOOLEAN]
    /\ now = 0
    /\ last_post_id = 0
    /\ last_comment_id = 0

\* PostCreateView.form_valid: form.instance.author = self.request.user, then save.
PostCreateView_form_valid(user, payload) ==
    [author |-> user, is_published |-> payload.is_published,
     pub_date |-> payload.pub_date, category |-> payload.category]

PostCreateView(user, payload) ==
    IF /\ LoginRequiredMixin_dispatch(user) = Pass
       /\ payload.method = "POST" /\ payload.valid
    THEN /\ last_post_id < MaxPosts
         /\ last_post_id' = last_post_id + 1
         /\ posts' = [p \in DOMAIN posts \cup {last_post_id + 1} |->
                        IF p = last_post_id + 1
                        THEN PostCreateView_form_valid(user, payload)
                        ELSE posts[p]]
         /\ UNCHANGED <<comments, category_published, now, last_comment_id>>
    ELSE UNCHANGED vars

\* UpdateView.form_valid with PostForm: the form's fields are saved, the author
\* is kept.
PostUpdateView(user, post_id, payload) ==
    IF /\ PostEdit_dispatch(DB, user, post_id) = Pass
       /\ payload.method = "POST" /\ payload.valid
    THEN /\ posts' = [posts EXCEPT ![post_id] =
                        [@ EXCEPT !.is_published = payload.is_published,
                                  !.pub_date = payload.pub_date,
                                  !.category = payload.category]]
         /\ UNCHANGED <<comments, category_published, now, last_post_id,
                        last_comment_id>>
    ELSE UNCHANGED vars

\* DeleteView.form_valid: the post is deleted and, by the cascade of
\* Comment.post, its comments with it.
PostDeleteView(user, post_id, method) ==
    IF PostEdit_dispatch(DB, user, post_id) = Pass /\ method = "POST"
    THEN /\ posts' = [p \in DOMAIN posts \ {post_id} |-> posts[p]]
         /\ comments' = [c \in {x \in DOMAIN comments : comments[x].post # post_id}
                            |-> comments[c]]
         /\ UNCHANGED <<category_published, now, last_post_id, last_comment_id>>
    ELSE UNCHANGED vars

\* CommentCreateView.form_valid without the two assignments: author and post are
\* what the submitted data says.
CommentCreateView_form_valid_from_data(user, post_id, payload) ==
    [author |-> payload.author, post |-> payload.post, text |-> payload.text]

\* CommentCreateView.form_valid: author and post are set from the request and
\* from the post the dispatch found, over whatever the form carried.
CommentCreateView_form_valid(user, post_id, payload) ==
    [author |-> user, post |-> post_id, text |-> payload.text]

CommentCreateView(user, post_id, payload) ==
    IF /\ get_post_or_404(DB, post_id) = Pass
       /\ LoginRequiredMixin_dispatch(user) = Pass
       /\ payload.method = "POST" /\ payload.valid
    THEN /\ last_comment_id < MaxComments
         /\ last_comment_id' = last_comment_id + 1
         /\ comments' = [c \in DOMAIN comments \cup {last_comment_id + 1} |->
                           IF c = last_comment_id + 1
                           THEN CommentCreateView_form_valid(user, post_id, payload)
                           ELSE comments[c]]
         /\ UNCHANGED <<posts, category_published, now, last_post_id>>
    ELSE UNCHANGED vars

\* UpdateView.form_valid with CommentForm: the text is saved.
CommentUpdateView(user, post_id, comment_id, payload) ==
    IF /\ CommentEdit_dispatch(DB, user, post_id, comment_id) = Pass
       /\ payload.method = "POST" /\ payload.valid
    THEN /\ comments' = [comments EXCEPT ![comment_id].text = payload.text]
         /\ UNCHANGED <<posts, category_published, now, last_post_id,
                        last_comment_id>>
    ELSE UNCHANGED vars

CommentDeleteView(user, post_id, comment_id, method) ==
    IF CommentEdit_dispatch(DB, user, post_id, comment_id) = Pass /\ method = "POST"
    THEN /\ comments' = [c \in DOMAIN comments \ {comment_id} |-> comments[c]]
         /\ UNCHANGED <<posts, category_published, now, last_post_id,
                        last_comment_id>>
    ELSE UNCHANGED vars

(***************************************************************************)
(* The admin site and the clock                                            *)
(***************************************************************************)
\* CategoryAdmin.list_editable: is_published
CategoryAdmin_list_editable(slug, value) ==
    /\ category_published' = [category_published EXCEPT ![slug] = value]
    /\ UNCHANGED <<posts, comments, now, last_post_id, last_comment_id>>

\* PostAdmin.list_editable: is_published
PostAdmin_list_editable(post_id, value) ==
    /\ post_id \in DOMAIN posts
    /\ posts' = [posts EXCEPT ![post_id].is_published = value]
    /\ UNCHANGED <<comments, category_published, now, last_post_id,
                   last_comment_id>>

\* timezone.now() advances.
Tick ==
    /\ now < MaxTime
    /\ now' = now + 1
    /\ UNCHANGED <<posts, comments, category_published, last_post_id,
                   last_comment_id>>

Next ==
    \/ \E user \in Requesters, payload \in PostPayloads :
          PostCreateView(user, payload)
    \/ \E user \in Requesters, post_id \in PostIds, payload \in PostPayloads :
          PostUpdateView(user, post_id, payload)
    \/ \E user \in Requesters, post_id \in PostIds, method \in Methods :
          PostDeleteView(user, post_id, method)
    \/ \E user \in Requesters, post_id \in PostIds, payload \in CommentPayloads :
          CommentCreateView(user, post_id, payload)
    \/ \E user \in Requesters, post_id \in PostIds, comment_id \in CommentIds,
          payload \in CommentTextPayloads :
          CommentUpdateView(user, post_id, comment_id, payload)
    \/ \E user \in Requesters, post_id \in PostIds, comment_id \in CommentIds,
          method \in Methods :
          CommentDeleteView(user, post_id, comment_id, method)
    \/ \E slug \in Categories, value \in BOOLEAN :
          CategoryAdmin_list_editable(slug, value)
    \/ \E post_id \in PostIds, value \in BOOLEAN :
          PostAdmin_list_editable(post_id, value)
    \/ Tick

Spec == Init /\ [][Next]_vars

\* The views of posts, the admin site and the clock alone: what the visibility of a
\* post depends on.
NextVisibility ==
    \/ \E user \in Requesters, payload \in PostPayloads :
          PostCreateView(user, payload)
    \/ \E user \in Requesters, post_id \in PostIds, payload \in PostPayloads :
          PostUpdateView(user, post_id, payload)
    \/ \E user \in Requesters, post_id \in PostIds, method \in Methods :
          PostDeleteView(user, post_id, method)
    \/ \E slug \in Categories, value \in BOOLEAN :
          CategoryAdmin_list_editable(slug, value)
    \/ \E post_id \in PostIds, value \in BOOLEAN :
          PostAdmin_list_editable(post_id, value)
    \/ Tick

SpecVisibility == Init /\ [][NextVisibility]_vars

\* The six views that write, with post forms that differ in is_published alone:
\* what authorship and the rows' contents depend on.
AuthorshipPostPayloads ==
    {p \in PostPayloads : p.pub_date = 0 /\ p.category = None}

NextAuthorship ==
    \/ \E user \in Requesters, payload \in AuthorshipPostPayloads :
          PostCreateView(user, payload)
    \/ \E user \in Requesters, post_id \in PostIds,
          payload \in AuthorshipPostPayloads :
          PostUpdateView(user, post_id, payload)
    \/ \E user \in Requesters, post_id \in PostIds, method \in Methods :
          PostDeleteView(user, post_id, method)
    \/ \E user \in Requesters, post_id \in PostIds, payload \in CommentPayloads :
          CommentCreateView(user, post_id, payload)
    \/ \E user \in Requesters, post_id \in PostIds, comment_id \in CommentIds,
          payload \in CommentTextPayloads :
          CommentUpdateView(user, post_id, comment_id, payload)
    \/ \E user \in Requesters, post_id \in PostIds, comment_id \in CommentIds,
          method \in Methods :
          CommentDeleteView(user, post_id, comment_id, method)

\* No write view reads the categories' flags: they start published and stay so.
InitAuthorship == Init /\ category_published = [slug \in Categories |-> TRUE]

SpecAuthorship == InitAuthorship /\ [][NextAuthorship]_vars

(***************************************************************************)
(* Properties                                                              *)
(***************************************************************************)
\* "is_published is false, or pub_date is later than the current time, or the
\* Category has is_published false"
Restricted(post) ==
    \/ ~post.is_published
    \/ post.pub_date > now
    \/ (post.category # None /\ ~category_published[post.category])

\* The rule of the listings: published, not in the future, in a published category.
Listed(post) ==
    /\ post.is_published
    /\ post.pub_date <= now
    /\ post.category # None
    /\ category_published[post.category]

ValidPostPayloads == {p \in PostPayloads : p.method = "POST" /\ p.valid}
ValidCommentPayloads == {c \in CommentPayloads : c.method = "POST" /\ c.valid}

\* C1: a restricted post's detail view answers not-found to every viewer other than
\* its author, anonymous or logged in, and renders nothing.
C1_RestrictedPostIsNotFound ==
    \A p \in DOMAIN posts, viewer \in Requesters :
        (pk(viewer) # posts[p].author /\ Restricted(posts[p]))
            => PostDetailView(DB, viewer, p) = Http404

\* A post that is published and due, in an unpublished category, asked for by
\* another logged-in user and by an anonymous one.
C1_Witness ==
    \E p \in DOMAIN posts, viewer \in Users :
        /\ viewer # posts[p].author
        /\ posts[p].is_published /\ posts[p].pub_date <= now
        /\ posts[p].category # None /\ ~category_published[posts[p].category]
        /\ PostDetailView(DB, viewer, p).status = "not_found"
        /\ PostDetailView(DB, AnonymousUser, p).status = "not_found"

\* C2: the detail view of a post always renders the post for its author, whatever
\* is_published, pub_date and the category (published, unpublished or absent).
C2_AuthorAlwaysSeesPost ==
    \A p \in DOMAIN posts :
        LET response == PostDetailView(DB, posts[p].author, p)
        IN  response.status = "ok" /\ response.post = p

\* C3: the profile feed lists, for a viewer other than the owner, the owner's posts
\* that are published, not in the future and in a published category, and for the
\* owner all of the owner's posts.
C3_ProfileFeed ==
    \A name \in Users, viewer \in Requesters :
        LET own == {p \in DOMAIN posts : posts[p].author = name}
        IN  ProfileListView(DB, viewer, name).object_list =
                IF username(viewer) = name THEN own
                ELSE {p \in own : Listed(posts[p])}

\* C4: the home feed is exactly the posts with is_published, pub_date <= now and a
\* published category, the category feed exactly those of them with that slug, and
\* a post is in the home feed iff an anonymous detail request for it succeeds.
C4_FeedsFollowTheRule ==
    LET expected == {p \in DOMAIN posts : Listed(posts[p])}
    IN  /\ PostListView(DB).object_list = expected
        /\ \A slug \in Categories :
              CategoryListlView(DB, slug).object_list =
                  {p \in expected : posts[p].category = slug
                                    /\ category_published[slug]}
        /\ \A p \in DOMAIN posts :
              p \in PostListView(DB).object_list
                  <=> PostDetailView(DB, AnonymousUser, p).status = "ok"

\* A step that is an edit or delete request against post p by user.
PostEditRequest(user, p) ==
    \/ \E payload \in PostPayloads : PostUpdateView(user, p, payload)
    \/ \E method \in Methods : PostDeleteView(user, p, method)

\* A step that is an edit or delete request against comment c by user, under any
\* post id in the URL.
CommentEditRequest(user, c) ==
    \E post_id \in PostIds :
        \/ \E payload \in CommentTextPayloads :
              CommentUpdateView(user, post_id, c, payload)
        \/ \E method \in Methods : CommentDeleteView(user, post_id, c, method)

C6_NonAuthorRedirectTarget ==
    \A user \in Users :
        /\ \A p \in DOMAIN posts :
              user # posts[p].author =>
                  /\ \A payload \in PostPayloads :
                        PostUpdateView_response(DB, user, p, payload)
                            = redirect_post_detail(p)
                  /\ \A method \in Methods :
                        PostDeleteView_response(DB, user, p, method)
                            = redirect_post_detail(p)
        /\ \A c \in DOMAIN comments :
              user # comments[c].author =>
                  /\ \A payload \in CommentPayloads :
                        CommentUpdateView_response(DB, user, comments[c].post, c, payload)
                            = redirect_post_detail(comments[c].post)
                  /\ \A method \in Methods :
                        CommentDeleteView_response(DB, user, comments[c].post, c, method)
                            = redirect_post_detail(comments[c].post)

\* C7: on post edit, post delete, comment edit and comment delete an anonymous
\* request is redirected to the login flow, never to a detail view: the
\* authentication check comes before the author check.
C7_AnonymousGoesToLogin ==
    /\ \A p \in DOMAIN posts :
          /\ \A payload \in PostPayloads :
                PostUpdateView_response(DB, AnonymousUser, p, payload) = redirect_login
          /\ \A method \in Methods :
                PostDeleteView_response(DB, AnonymousUser, p, method) = redirect_login
    /\ \A c \in DOMAIN comments :
          /\ \A payload \in CommentPayloads :
                CommentUpdateView_response(DB, AnonymousUser, comments[c].post, c,
                                           payload) = redirect_login
          /\ \A method \in Methods :
                CommentDeleteView_response(DB, AnonymousUser, comments[c].post, c,
                                           method) = redirect_login

\* The store without post n and without its comments.
Without(db, n) ==
    [posts |-> [p \in DOMAIN db.posts \ {n} |-> db.posts[p]],
     comments |-> [c \in {x \in DOMAIN db.comments : db.comments[x].post # n}
                      |-> db.comments[c]]]

\* C8: to a viewer who is not its author a restricted post n is like no post: each
\* request naming n (detail, edit, delete, create comment) gets the response it
\* gets from the store without n, and that response is not-found.
C8_RestrictedLooksAbsent ==
    \A n \in DOMAIN posts, viewer \in Requesters :
        (pk(viewer) # posts[n].author /\ Restricted(posts[n])) =>
            LET absent == Without(DB, n)
            IN  /\ PostDetailView(DB, viewer, n) = PostDetailView(absent, viewer, n)
                /\ PostDetailView(DB, viewer, n) = Http404
                /\ \A payload \in PostPayloads :
                      /\ PostUpdateView_response(DB, viewer, n, payload)
                            = PostUpdateView_response(absent, viewer, n, payload)
                      /\ PostUpdateView_response(DB, viewer, n, payload) = Http404
                /\ \A method \in Methods :
                      /\ PostDeleteView_response(DB, viewer, n, method)
                            = PostDeleteView_response(absent, viewer, n, method)
                      /\ PostDeleteView_response(DB, viewer, n, method) = Http404
                /\ \A payload \in CommentPayloads :
                      /\ CommentCreateView_response(DB, viewer, n, payload)
                            = CommentCreateView_response(absent, viewer, n, payload)
                      /\ CommentCreateView_response(DB, viewer, n, payload) = Http404

\* C9: a comment whose parent post is restricted is in no response to a viewer who
\* is not the post's author: not in the post's detail view and not on the comment's
\* edit or delete page, the comment's own author included.
C9_CommentOfRestrictedPostIsHidden ==
    \A c \in DOMAIN comments, viewer \in Requesters :
        LET p == comments[c].post
        IN  (Restricted(posts[p]) /\ pk(viewer) # posts[p].author) =>
                /\ c \notin PostDetailView(DB, viewer, p).comments
                /\ \A payload \in CommentPayloads :
                      CommentUpdateView_response(DB, viewer, p, c, payload).comment # c
                /\ \A method \in Methods :
                      CommentDeleteView_response(DB, viewer, p, c, method).comment # c

\* What a comment submission by user to /posts/<post_id>/comment/ is answered.
C10_Responses ==
    \A user \in Requesters, post_id \in PostIds, payload \in ValidCommentPayloads :
        CommentCreateView_response(DB, user, post_id, payload) =
            IF post_id \notin DOMAIN posts THEN Http404
            ELSE IF user = AnonymousUser THEN redirect_login
            ELSE redirect_post_detail(post_id)

\* What a comment submission by user to /posts/<post_id>/comment/ may persist: one
\* new comment of that user on that post, from a logged-in user's valid form for an
\* existing post, and nothing otherwise.
C10_Persisted(user, post_id, payload) ==
    \/ comments' = comments
    \/ /\ post_id \in DOMAIN posts /\ user \in Users
       /\ payload \in ValidCommentPayloads
       /\ \E c \in CommentIds \ DOMAIN comments :
            /\ DOMAIN comments' = DOMAIN comments \cup {c}
            /\ comments'[c].author = user
            /\ comments'[c].post = post_id
            /\ \A d \in DOMAIN comments : comments'[d] = comments[d]

\* A logged-in user's valid form for an existing post can be submitted while the
\* table has room, and the step then changes the table.
C10_Persists ==
    \A user \in Users, post_id \in DOMAIN posts, payload \in ValidCommentPayloads :
        last_comment_id < MaxComments =>
            ENABLED (CommentCreateView(user, post_id, payload) /\ comments' # comments)

\* C10: a valid comment form submitted by a logged-in user for an existing post
\* persists exactly one comment, whose author is the requester and whose post is the
\* post of the URL whatever the submitted data says, and redirects to /posts/<id>/;
\* an anonymous submission for an existing post persists nothing and redirects to
\* login; a submission for a post id that does not exist persists nothing and is
\* not-found.
C10_CommentCreation ==
    /\ [](C10_Responses /\ C10_Persists)
    /\ [][comments' = comments
          \/ \A user \in Requesters, post_id \in PostIds, payload \in CommentPayloads :
                CommentCreateView(user, post_id, payload)
                    => C10_Persisted(user, post_id, payload)]_vars

\* A comment by one user on the other user's post, while another post id names no
\* post: the store after a valid submission, with the three answers at hand.
C10_Witness ==
    \E c \in DOMAIN comments, n \in PostIds :
        /\ n \notin DOMAIN posts
        /\ comments[c].author # posts[comments[c].post].author
        /\ \A payload \in ValidCommentPayloads :
              /\ CommentCreateView_response(DB, comments[c].author, comments[c].post,
                                            payload)
                    = redirect_post_detail(comments[c].post)
              /\ CommentCreateView_response(DB, AnonymousUser, comments[c].post,
                                            payload) = redirect_login
              /\ CommentCreateView_response(DB, comments[c].author, n, payload)
                    = Http404

====
